---- MODULE Spec2Model ----
(***************************************************************************)
(* Code Smells Detector & Refactorer: the single-page application of       *)
(* src/js (app.js, api.js, prompt.js, state.js, ui.js) as a state machine, *)
(* and the earlier single-file page script.js as a second one over the     *)
(* same variables (LegacySpec).                                            *)
(*                                                                         *)
(* The handlers of app.js run to their first await in one step (the        *)
(* browser runs a handler and its microtasks without interleaving); the    *)
(* two awaits of api.js callGemini (fetch, response.json) are the points   *)
(* where other events interleave.  A DOM event reaches its handler only    *)
(* when the control it comes from is not disabled.                         *)
(***************************************************************************)
EXTENDS Integers, Sequences, FiniteSets, TLC

VARIABLES
  apiKey,           \* state.js: let apiKey
  currentCode,      \* state.js: let currentCode
  currentLanguage,  \* state.js: let currentLanguage
  analysisResult,   \* state.js: let analysisResult
  chatHistory,      \* state.js: let chatHistory
  el,               \* ui.js: the element map (the DOM properties the code writes);
                    \* under LegacySpec the elements of script.js, lines 1-8
  configPending,    \* app.js init(): loadConfig() has not settled yet
  inflight,         \* the pending onAnalyze / onChatSend invocations and their requests
  nextId,           \* number of the next request issued
  last              \* how the last run of onAnalyze, onChatSend or onClear ended;
                    \* Ran("event", "ok") after any other handler

vars == <<apiKey, currentCode, currentLanguage, analysisResult, chatHistory,
          el, configPending, inflight, nextId, last>>

stateVars == <<apiKey, currentCode, currentLanguage, analysisResult, chatHistory>>

-----------------------------------------------------------------------------
(* Bounds of the model                                                     *)

MaxRequests == 3

-----------------------------------------------------------------------------
(* JavaScript values.  A value is a record tagged by t; objects and arrays *)
(* carry their own properties in o, arrays their elements in a.            *)

UNDEF == [t |-> "undef"]
NULL == [t |-> "null"]
NoProps == [f \in {} |-> NULL]

JsStr(s) == [t |-> "str", s |-> s]
JsNum(n) == [t |-> "num", n |-> n]
JsObj(o) == [t |-> "obj", o |-> o]
JsArr(a) == [t |-> "arr", a |-> a, o |-> NoProps]

IsString(v) == v.t = "str"
IsArray(v) == v.t = "arr"
IsObjectLike(v) == v.t \in {"obj", "arr"}
IsNullish(v) == v.t \in {"undef", "null"}
IsPrimitive(v) == v.t \in {"str", "num", "bool"}

\* v.f
Get(v, f) == IF IsObjectLike(v) /\ f \in DOMAIN v.o THEN v.o[f] ELSE UNDEF
\* v[i], i counted from 0
Idx(v, i) == IF IsArray(v) /\ (i + 1) \in DOMAIN v.a THEN v.a[i + 1] ELSE UNDEF
\* v?.f and v?.[i]
OptGet(v, f) == IF IsNullish(v) THEN UNDEF ELSE Get(v, f)
OptIdx(v, i) == IF IsNullish(v) THEN UNDEF ELSE Idx(v, i)
\* v.f = x on an object or array
Put(v, f, x) ==
  [v EXCEPT !.o = [g \in (DOMAIN v.o) \cup {f} |-> IF g = f THEN x ELSE v.o[g]]]
\* a ?? b
Coalesce(a, b) == IF IsNullish(a) THEN b ELSE a

-----------------------------------------------------------------------------
(* Text.  A text is a sequence of tokens: white space, a ``` fence, a word, *)
(* or a serialised JSON document.                                          *)

WS == [k |-> "ws"]
FENCE == [k |-> "fence"]
Word(w) == [k |-> "word", w |-> w]
Doc(v) == [k |-> "doc", v |-> v]

RECURSIVE TrimStart(_)
TrimStart(s) == IF s # <<>> /\ Head(s) = WS THEN TrimStart(Tail(s)) ELSE s

RECURSIVE TrimEnd(_)
TrimEnd(s) ==
  IF s # <<>> /\ s[Len(s)] = WS THEN TrimEnd(SubSeq(s, 1, Len(s) - 1)) ELSE s

\* String.prototype.trim
Trim(s) == TrimEnd(TrimStart(s))

\* String.prototype.toLowerCase on the words the model uses
LowerWord(w) ==
  CASE w \in {"Critical", "CRITICAL", "critical"} -> "critical"
    [] w \in {"Major", "MAJOR", "major"} -> "major"
    [] w \in {"Minor", "minor"} -> "minor"
    [] w = "JSON" -> "json"
    [] OTHER -> w

ToLowerCase(s) ==
  [i \in DOMAIN s |-> IF s[i].k = "word" THEN Word(LowerWord(s[i].w)) ELSE s[i]]

\* String.prototype.length
RECURSIVE TextLength(_)
TextLength(s) ==
  IF s = <<>> THEN 0
  ELSE TextLength(Tail(s)) +
       (CASE Head(s).k = "ws" -> 1
          [] Head(s).k = "fence" -> 3
          [] Head(s).k = "word" -> Len(Head(s).w))

\* !v
Falsy(v) ==
  \/ IsNullish(v)
  \/ (v.t = "str" /\ v.s = <<>>)
  \/ (v.t = "num" /\ v.n = 0)
  \/ (v.t = "bool" /\ ~v.b)

-----------------------------------------------------------------------------
(* prompt.js                                                               *)

buildAnalysisPrompt(code, language) ==
  LET named == language # "" /\ language # "auto" /\ language # "other"
  IN [template |-> "analysis",
      langDisplay |-> IF named THEN language ELSE "the following",
      langFence |-> IF named THEN language ELSE "",
      code |-> code]

buildFollowUpPrompt(question, originalCode, result) ==
  [template |-> "followup",
   analysis |-> result,
   code |-> originalCode,
   question |-> question]

-----------------------------------------------------------------------------
(* api.js                                                                  *)

GEMINI_ENDPOINT ==
  "https://generativelanguage.googleapis.com/v1beta/models/gemini-2.5-flash-lite:generateContent"

REQUEST_TIMEOUT_MS == 30000

MsgConfigLoad == "Could not load config.json. Make sure it exists at the project root."
MsgConfigKey ==
  "Invalid or missing API key. Open config.json and replace the placeholder with your Gemini API key."
MsgNoKey == "Invalid or missing API key. Open config.json and add your Gemini API key."
MsgTimeout == "Request timed out. Please try again."
MsgNetwork == "Network error. Please check your connection."
MsgBadCredential == "Invalid or missing API key."
MsgUnauthorized == "API key is unauthorised. Check that your key is valid and active."
MsgRateLimited == "API rate limit exceeded. Please wait a moment and try again."
MsgEndpoint(status) == "Gemini API error (HTTP " \o ToString(status) \o "). Please try again."
MsgMalformed == "Malformed response from Gemini."
MsgNoContent == "Malformed response from Gemini - no content returned."
MsgParse == "Malformed response from Gemini. Could not parse the analysis result."
\* messages of the TypeErrors the engine raises
MsgReadNull == "Cannot read properties of null"
MsgCreateProperty == "Cannot create property on a primitive value"
MsgNotAFunction == "toLowerCase is not a function"

Thrown(message) == [threw |-> TRUE, message |-> message]
Returned(value) == [threw |-> FALSE, value |-> value]

\* a loadConfig that rejects the missing key only, not the placeholders
loadConfigTakesPlaceholder(cfg) ==
  IF cfg.k # "json" THEN Thrown(MsgConfigLoad)
  ELSE LET key == OptGet(OptGet(cfg.config, "gemini"), "api_key")
       IN IF Falsy(key) THEN Thrown(MsgConfigKey) ELSE Returned(key)

\* loadConfig(): cfg is how the fetch of config.json ended
loadConfig(cfg) ==
  IF cfg.k # "json" THEN Thrown(MsgConfigLoad)
  ELSE LET key == OptGet(OptGet(cfg.config, "gemini"), "api_key")
       IN IF \/ Falsy(key)
             \/ key = JsStr(<<Word("PLACEHOLDER")>>)
             \/ key = JsStr(<<Word("PASTE_YOUR_GEMINI_API_KEY_HERE")>>)
          THEN Thrown(MsgConfigKey)
          ELSE Returned(key)

\* a request that asks for JSON whatever forceJson is
callGeminiRequestAlwaysJson(prompt, key, forceJson) ==
  [url |-> [base |-> GEMINI_ENDPOINT, query |-> <<>>],
   method |-> "POST",
   headers |-> [contentType |-> "application/json", xGoogApiKey |-> key],
   body |-> [contents |-> prompt, response_mime_type |-> "application/json"],
   timeout |-> REQUEST_TIMEOUT_MS]

\* callGemini, lines 69-87: the request handed to fetch
callGeminiRequest(prompt, key, forceJson) ==
  [url |-> [base |-> GEMINI_ENDPOINT, query |-> <<>>],
   method |-> "POST",
   headers |-> [contentType |-> "application/json", xGoogApiKey |-> key],
   body |-> [contents |-> prompt,
             response_mime_type |-> IF forceJson THEN "application/json" ELSE "unset"],
   timeout |-> REQUEST_TIMEOUT_MS]

\* a response.ok that holds of status 200 alone
ResponseOkOnly200(status) == status = 200

ResponseOk(status) == status >= 200 /\ status <= 299

\* a classification without the case of status 429
callGeminiFetchedNo429(f) ==
  IF f.k = "reject"
  THEN IF f.name \in {"TimeoutError", "AbortError"}
       THEN Thrown(MsgTimeout)
       ELSE Thrown(MsgNetwork)
  ELSE IF f.status = 400 THEN Thrown(MsgBadCredential)
  ELSE IF f.status = 401 \/ f.status = 403 THEN Thrown(MsgUnauthorized)
  ELSE IF ~ResponseOk(f.status) THEN Thrown(MsgEndpoint(f.status))
  ELSE Returned(UNDEF)

\* callGemini, lines 88-107: fetch has settled with outcome f.
\* A returned value means the call goes on to read the body.
callGeminiFetched(f) ==
  IF f.k = "reject"
  THEN IF f.name \in {"TimeoutError", "AbortError"}
       THEN Thrown(MsgTimeout)
       ELSE Thrown(MsgNetwork)
  ELSE IF f.status = 400 THEN Thrown(MsgBadCredential)
  ELSE IF f.status = 401 \/ f.status = 403 THEN Thrown(MsgUnauthorized)
  ELSE IF f.status = 429 THEN Thrown(MsgRateLimited)
  ELSE IF ~ResponseOk(f.status) THEN Thrown(MsgEndpoint(f.status))
  ELSE Returned(UNDEF)

\* a callGemini that returns the text trimmed
callGeminiBodyTrims(b) ==
  IF b.k = "reject" THEN Thrown(MsgMalformed)
  ELSE LET text ==
             OptGet(OptIdx(OptGet(OptGet(OptIdx(OptGet(b.data, "candidates"), 0),
                                         "content"), "parts"), 0), "text")
       IN IF ~IsString(text) \/ Trim(text.s) = <<>>
          THEN Thrown(MsgNoContent)
          ELSE Returned(Trim(text.s))

\* callGemini, lines 109-121: response.json() has settled with outcome b
callGeminiBody(b) ==
  IF b.k = "reject" THEN Thrown(MsgMalformed)
  ELSE LET text ==
             OptGet(OptIdx(OptGet(OptGet(OptIdx(OptGet(b.data, "candidates"), 0),
                                         "content"), "parts"), 0), "text")
       IN IF ~IsString(text) \/ Trim(text.s) = <<>>
          THEN Thrown(MsgNoContent)
          ELSE Returned(text.s)

\* a stripping of the opening fence that leaves the json tag
StripLeadingFenceKeepsTag(s) ==
  IF s # <<>> /\ Head(s) = FENCE THEN TrimStart(Tail(s)) ELSE s

\* .replace(/^```(?:json)?\s*/i, '')
StripLeadingFence(s) ==
  IF s # <<>> /\ Head(s) = FENCE
  THEN LET r == Tail(s)
           q == IF r # <<>> /\ Head(r).k = "word" /\ LowerWord(Head(r).w) = "json"
                THEN Tail(r) ELSE r
       IN TrimStart(q)
  ELSE s

\* .replace(/\s*```$/i, '')
StripTrailingFence(s) ==
  IF s # <<>> /\ s[Len(s)] = FENCE
  THEN TrimEnd(SubSeq(s, 1, Len(s) - 1))
  ELSE s

\* JSON.parse: white space around one JSON document
JsonParse(s) ==
  LET t == Trim(s)
  IN IF Len(t) = 1 /\ t[1].k = "doc" THEN Returned(t[1].v)
     ELSE Thrown("Unexpected token in JSON")

\* field defaults that keep the first smell only
NormaliseFieldsFirstSmell(result, code) ==
  LET r1 == IF ~IsArray(Get(result, "smells"))
            THEN Put(result, "smells", JsArr(<<>>))
            ELSE IF Get(result, "smells").a = <<>> THEN result
            ELSE Put(result, "smells", JsArr(<<Get(result, "smells").a[1]>>))
      r2 == IF ~IsString(Get(r1, "summary"))
            THEN Put(r1, "summary", JsStr(<<>>)) ELSE r1
  IN IF ~IsString(Get(r2, "refactored_code"))
     THEN Put(r2, "refactored_code", JsStr(code)) ELSE r2

\* analyzeCode, lines 155-157: the field defaults, on an object or array
NormaliseFields(result, code) ==
  LET r1 == IF ~IsArray(Get(result, "smells"))
            THEN Put(result, "smells", JsArr(<<>>)) ELSE result
      r2 == IF ~IsString(Get(r1, "summary"))
            THEN Put(r1, "summary", JsStr(<<>>)) ELSE r1
  IN IF ~IsString(Get(r2, "refactored_code"))
     THEN Put(r2, "refactored_code", JsStr(code)) ELSE r2

\* an analyzeCode that lets the error of JSON.parse through
analyzeCodeTextNoCatch(rawText, code) ==
  LET cleaned == Trim(StripTrailingFence(StripLeadingFence(rawText)))
      parsed == JsonParse(cleaned)
  IN IF parsed.threw THEN parsed
     ELSE IF parsed.value = NULL THEN Thrown(MsgReadNull)
     ELSE IF IsPrimitive(parsed.value) THEN Thrown(MsgCreateProperty)
     ELSE Returned(NormaliseFields(parsed.value, code))

\* analyzeCode, lines 139-159: from the raw text of the completion
analyzeCodeText(rawText, code) ==
  LET cleaned == Trim(StripTrailingFence(StripLeadingFence(rawText)))
      parsed == JsonParse(cleaned)
  IN IF parsed.threw THEN Thrown(MsgParse)
     ELSE IF parsed.value = NULL THEN Thrown(MsgReadNull)
     ELSE IF IsPrimitive(parsed.value) THEN Thrown(MsgCreateProperty)
     ELSE Returned(NormaliseFields(parsed.value, code))

-----------------------------------------------------------------------------
(* ui.js: each function maps the element map e to the element map it       *)
(* leaves.                                                                 *)

updateCharCount(e, count) == [e EXCEPT !.charCount = count]

setAnalyzeButtonEnabled(e, enabled) == [e EXCEPT !.analyzeBtnDisabled = ~enabled]

\* setLoading that leaves the Analyze button as it is
setLoadingKeepsAnalyzeBtn(e, loading) ==
  [e EXCEPT !.loadingHidden = ~loading,
            !.codeInputDisabled = loading,
            !.languageSelectDisabled = loading,
            !.clearBtnDisabled = loading]

setLoading(e, loading) ==
  [e EXCEPT !.loadingHidden = ~loading,
            !.analyzeBtnDisabled = loading,
            !.codeInputDisabled = loading,
            !.languageSelectDisabled = loading,
            !.clearBtnDisabled = loading]

showError(e, message) == [e EXCEPT !.errorMessage = message, !.errorHidden = FALSE]

hideError(e) == [e EXCEPT !.errorHidden = TRUE, !.errorMessage = ""]

\* summary?.trim() || 'No summary was provided.'
renderSummary(e, summary) ==
  [e EXCEPT !.summaryText =
     IF IsNullish(summary) \/ Trim(summary.s) = <<>>
     THEN <<Word("No summary was provided.")>>
     ELSE Trim(summary.s)]

\* normaliseSeverity throws when (severity ?? '') has no toLowerCase
normaliseSeverityThrows(severity) == ~IsNullish(severity) /\ ~IsString(severity)

normaliseSeverity(severity) ==
  LET lower == ToLowerCase(Coalesce(severity, JsStr(<<>>)).s)
  IN IF lower = <<Word("critical")>> THEN "critical"
     ELSE IF lower = <<Word("major")>> THEN "major"
     ELSE "minor"

\* createSmellCard throws on reading smell.severity of null, or in normaliseSeverity
createSmellCardThrows(smell) ==
  IsNullish(smell) \/ normaliseSeverityThrows(Get(smell, "severity"))

createSmellCardMessage(smell) == IF IsNullish(smell) THEN MsgReadNull ELSE MsgNotAFunction

createSmellCard(smell) ==
  [className |-> normaliseSeverity(Get(smell, "severity")),
   name |-> Coalesce(Get(smell, "name"), JsStr(<<Word("Unknown Smell")>>)),
   badge |-> Coalesce(Get(smell, "severity"), JsStr(<<Word("Minor")>>)),
   location |-> Get(smell, "location"),
   explanation |-> Coalesce(Get(smell, "explanation"), JsStr(<<>>))]

\* index of the first smell whose card cannot be created, 0 when there is none
FirstBadSmell(smells) ==
  LET bad == {i \in DOMAIN smells : createSmellCardThrows(smells[i])}
  IN IF bad = {} THEN 0 ELSE CHOOSE i \in bad : \A j \in bad : i <= j

SmellCountTextPlural(count) ==
  IF count = 0 THEN "0 smells found"
  ELSE ToString(count) \o " smells found"

SmellCountText(count) ==
  IF count = 0 THEN "0 smells found"
  ELSE IF count = 1 THEN "1 smell found"
  ELSE ToString(count) \o " smells found"

\* renderSmells: the cards appended before a failing one stay in the list
renderSmells(e, smells) ==
  LET count == Len(smells)
      bad == FirstBadSmell(smells)
      shown == IF bad = 0 THEN count ELSE bad - 1
  IN [e EXCEPT !.smellCountBadge = SmellCountText(count),
               !.noSmellsMessage = (count = 0),
               !.smellsList = [i \in 1..shown |-> createSmellCard(smells[i])]]

renderCode(e, originalCode, refactoredCode) ==
  [e EXCEPT !.originalCode = originalCode, !.refactoredCode = refactoredCode]

\* renderResults throws exactly when renderSmells does
renderResultsThrows(result) == FirstBadSmell(Get(result, "smells").a) # 0

renderResultsMessage(result) ==
  LET smells == Get(result, "smells").a
  IN createSmellCardMessage(smells[FirstBadSmell(smells)])

renderResults(e, result, code) ==
  LET e1 == renderSmells(renderSummary(e, Get(result, "summary")), Get(result, "smells").a)
  IN IF renderResultsThrows(result) THEN e1
     ELSE [renderCode(e1, code, Get(result, "refactored_code").s)
             EXCEPT !.resultsHidden = FALSE]

showChatPanel(e) == [e EXCEPT !.chatPanelHidden = FALSE]

appendChatMessage(e, role, text) ==
  [e EXCEPT !.chatLog = Append(@, [role |-> role, text |-> text])]

setChatSending(e, sending) ==
  [e EXCEPT !.chatSendBtnDisabled = sending,
            !.chatInputDisabled = sending,
            !.chatSendBtnText = IF sending THEN "..." ELSE "Send"]

clearChatInput(e) == [e EXCEPT !.chatInputValue = <<>>]

\* ui.reset(): the initial empty state of the page
uiReset ==
  [codeInputValue |-> <<>>,
   languageSelectValue |-> "auto",
   codeInputDisabled |-> FALSE,
   languageSelectDisabled |-> FALSE,
   charCount |-> 0,
   errorHidden |-> TRUE,
   errorMessage |-> "",
   loadingHidden |-> TRUE,
   resultsHidden |-> TRUE,
   summaryText |-> <<>>,
   smellCountBadge |-> "",
   noSmellsMessage |-> FALSE,
   smellsList |-> <<>>,
   originalCode |-> <<>>,
   refactoredCode |-> <<>>,
   chatPanelHidden |-> TRUE,
   chatLog |-> <<>>,
   chatInputValue |-> <<>>,
   chatInputDisabled |-> FALSE,
   chatSendBtnDisabled |-> FALSE,
   chatSendBtnText |-> "Send",
   analyzeBtnDisabled |-> TRUE,
   clearBtnDisabled |-> FALSE]

-----------------------------------------------------------------------------
(* The inputs of the model: what the user types and what the servers       *)
(* answer.                                                                 *)

CodeA == <<Word("function"), WS, Word("f(){}")>>
CodeInputs == {<<Word("short")>>, CodeA}

Languages == {"auto", "Python"}

ChatInputs == {<<WS>>, <<WS, Word("why?"), WS>>}

Keys == {"Enter", "a"}

KeyK == JsStr(<<Word("test-key")>>)

ConfigOutcomes ==
  {[k |-> "fail"],
   [k |-> "json", config |-> JsObj([gemini |-> JsObj([api_key |-> KeyK])])],
   [k |-> "json", config |-> JsObj([gemini |-> JsObj([api_key |-> JsStr(<<Word("PLACEHOLDER")>>)])])],
   [k |-> "json", config |-> JsObj(NoProps)]}

Statuses == {200, 429, 500}

FetchOutcomes ==
  {[k |-> "reject", name |-> "TypeError"], [k |-> "reject", name |-> "TimeoutError"]}
    \cup {[k |-> "response", status |-> st] : st \in Statuses}

\* the envelope of the endpoint around a text
Envelope(text) ==
  JsObj([candidates |->
    JsArr(<<JsObj([content |-> JsObj([parts |-> JsArr(<<JsObj([text |-> text])>>)])])>>)])

SmellLPL ==
  JsObj([name |-> JsStr(<<Word("Long Parameter List")>>),
         severity |-> JsStr(<<Word("Major")>>),
         location |-> JsStr(<<Word("line 1")>>),
         explanation |-> JsStr(<<Word("...")>>)])

ResultGood ==
  JsObj([summary |-> JsStr(<<Word("two smells")>>),
         smells |-> JsArr(<<SmellLPL>>),
         refactored_code |-> JsStr(<<Word("function f(x){return x;}")>>)])

ResultNullSmell == JsObj([smells |-> JsArr(<<SmellLPL, NULL>>)])

AnalysisTexts ==
  {<<Doc(ResultGood)>>,
   <<FENCE, Word("json"), WS, Doc(ResultNullSmell), WS, FENCE>>,
   <<Word("Sorry")>>}

ReplyTexts == {<<Word("because")>>, <<WS>>}

\* response.json() rejects with a SyntaxError, or with the reason of the abort
\* signal when the timeout expires while the body is read
BodyRejections ==
  {[k |-> "reject", name |-> "SyntaxError"], [k |-> "reject", name |-> "TimeoutError"]}

BodyOutcomes(kind) ==
  BodyRejections \cup {[k |-> "json", data |-> JsObj(NoProps)]}
    \cup {[k |-> "json", data |-> Envelope(JsStr(t))] :
            t \in IF kind = "analyze" THEN AnalysisTexts ELSE ReplyTexts}

-----------------------------------------------------------------------------
(* The responses one call can get: every status fetch can deliver, every   *)
(* shape of the envelope, and completions of every shape the normalisation *)
(* of analyzeCode tells apart.                                             *)

JsBool(b) == [t |-> "bool", b |-> b]

CodeB == <<Word("def"), WS, Word("g(a,b,c,d,e,f):"), WS, Word("pass")>>

ClientCodes == {CodeA, CodeB}

ClientFetchOutcomes ==
  {[k |-> "reject", name |-> n] : n \in {"TypeError", "TimeoutError", "AbortError"}}
    \cup {[k |-> "response", status |-> st] : st \in 200..599}

\* a smell with the given severity, UNDEF for none
SmellWith(severity) ==
  LET o == JsObj([name |-> JsStr(<<Word("God Object")>>),
                  location |-> JsStr(<<Word("line 2")>>),
                  explanation |-> JsStr(<<Word("...")>>)])
  IN IF severity = UNDEF THEN o ELSE Put(o, "severity", severity)

SeverityValues ==
  {UNDEF, NULL, JsNum(3)} \cup
  {JsStr(<<Word(w)>>) : w \in {"Critical", "MAJOR", "minor", "High"}}

SmellsValues ==
  {UNDEF, NULL, JsStr(<<Word("none")>>), JsArr(<<>>), JsArr(<<SmellLPL>>),
   JsArr(<<JsObj(NoProps)>>), JsArr(<<SmellLPL, NULL>>), JsArr(<<JsNum(1), SmellLPL>>),
   JsArr(<<JsStr(<<Word("smell")>>)>>),
   JsArr(<<SmellLPL, SmellWith(JsStr(<<Word("Critical")>>))>>),
   JsArr(<<SmellWith(JsStr(<<Word("Critical")>>)), SmellLPL>>),
   JsArr(<<SmellLPL, SmellLPL>>)}
    \cup {JsArr(<<SmellWith(sv)>>) : sv \in SeverityValues}

SummaryValues == {UNDEF, JsStr(<<Word("two smells")>>), JsNum(7)}

RefactoredValues ==
  {UNDEF, NULL, JsNum(0), JsStr(<<>>), JsStr(<<Word("function f(x){return x;}")>>)}

\* the object with the given fields, UNDEF for a field it does not have
ResultWith(summary, smells, refactored) ==
  LET o1 == IF summary = UNDEF THEN JsObj(NoProps)
            ELSE Put(JsObj(NoProps), "summary", summary)
      o2 == IF smells = UNDEF THEN o1 ELSE Put(o1, "smells", smells)
  IN IF refactored = UNDEF THEN o2 ELSE Put(o2, "refactored_code", refactored)

ClientDocs ==
  {ResultWith(su, sm, rc) : su \in SummaryValues, sm \in SmellsValues,
                            rc \in RefactoredValues}
    \cup {NULL, JsNum(42), JsStr(<<Word("fine")>>), JsBool(TRUE), JsBool(FALSE),
          JsArr(<<>>), JsArr(<<SmellLPL>>)}

\* what the model writes around the JSON document
Wrappings(d) ==
  {<<Doc(d)>>,
   <<WS, Doc(d), WS>>,
   <<FENCE, Word("json"), WS, Doc(d), WS, FENCE>>,
   <<FENCE, Word("JSON"), WS, Doc(d), WS, FENCE>>,
   <<FENCE, WS, Doc(d), WS, FENCE>>,
   <<FENCE, Word("json"), WS, Doc(d), WS, FENCE, WS>>,
   <<WS, FENCE, Word("json"), WS, Doc(d), WS, FENCE>>,
   <<Word("Here:"), WS, Doc(d)>>,
   <<Doc(d), WS, Doc(d)>>}

\* results that the inputs hold inside fences only
ResultFenced ==
  ResultWith(JsStr(<<Word("fenced")>>), JsArr(<<SmellLPL>>),
             JsStr(<<Word("function f(x){return x;}")>>))

ResultFencedPartial == ResultWith(JsStr(<<Word("fenced")>>), UNDEF, UNDEF)

\* d between one opening fence (bare, or tagged json in either case) and one
\* closing fence, with and without white space next to the fences
FenceWrappings(d) ==
  {<<FENCE>> \o tag \o before \o <<Doc(d)>> \o after \o <<FENCE>> :
     tag \in {<<>>, <<Word("json")>>, <<Word("JSON")>>},
     before \in {<<>>, <<WS>>}, after \in {<<>>, <<WS>>}}

\* d between two opening and two closing fences
DoubleFenced(d) ==
  {<<FENCE, WS, FENCE, Word("json"), WS, Doc(d), WS, FENCE, WS, FENCE>>,
   <<FENCE, FENCE, Doc(d), FENCE, FENCE>>}

\* every document bare, three of them in every wrapping, and two in fences
ClientAnalysisTexts ==
  {<<Doc(d)>> : d \in ClientDocs}
    \cup UNION {Wrappings(d) : d \in {ResultGood, ResultNullSmell, NULL}}
    \cup UNION {FenceWrappings(d) : d \in {ResultFenced, ResultFencedPartial}}
    \cup DoubleFenced(ResultFenced)
    \cup {<<Word("Sorry")>>, <<FENCE, Word("json"), WS, Word("Sorry"), WS, FENCE>>,
          <<FENCE, FENCE>>, <<WS>>, <<>>}

ClientReplyTexts ==
  {<<Word("because")>>, <<WS, Word("because"), WS>>, <<FENCE, Word("json"), WS, FENCE>>,
   <<Doc(NULL)>>, <<WS>>, <<>>}

\* the shapes of a parsed body around the value at candidates[0].content.parts[0].text
ClientEnvelopes ==
  {NULL, JsNum(1), JsStr(<<Word("ok")>>), JsArr(<<>>), JsObj(NoProps),
   JsObj([candidates |-> NULL]),
   JsObj([candidates |-> JsArr(<<>>)]),
   JsObj([candidates |-> JsArr(<<NULL>>)]),
   JsObj([candidates |-> JsArr(<<JsObj(NoProps)>>)]),
   JsObj([candidates |-> JsArr(<<JsObj([content |-> JsObj(NoProps)])>>)]),
   JsObj([candidates |-> JsArr(<<JsObj([content |-> JsObj([parts |-> JsArr(<<>>)])])>>)]),
   Envelope(UNDEF), Envelope(NULL), Envelope(JsNum(5)), Envelope(JsBool(TRUE)),
   Envelope(JsArr(<<JsStr(<<Word("because")>>)>>)), Envelope(ResultGood)}

ClientBodyOutcomes(kind) ==
  BodyRejections
    \cup {[k |-> "json", data |-> d] : d \in ClientEnvelopes}
    \cup {[k |-> "json", data |-> Envelope(JsStr(t))] :
            t \in IF kind = "analyze" THEN ClientAnalysisTexts ELSE ClientReplyTexts}

-----------------------------------------------------------------------------
(* state.js                                                                *)

ChatEntry(role, text) == [role |-> role, text |-> text]

\* state.reset(): every field but apiKey
stateReset ==
  /\ currentCode' = <<>>
  /\ currentLanguage' = "auto"
  /\ analysisResult' = NULL
  /\ chatHistory' = <<>>
  /\ UNCHANGED apiKey

-----------------------------------------------------------------------------
(* app.js                                                                  *)

Ran(op, out) == [op |-> op, out |-> out]

Pending(kind) == {r \in inflight : r.kind = kind}

Init ==
  /\ apiKey = NULL
  /\ currentCode = <<>>
  /\ currentLanguage = "auto"
  /\ analysisResult = NULL
  /\ chatHistory = <<>>
  /\ el = uiReset
  /\ configPending = TRUE
  /\ inflight = {}
  /\ nextId = 1
  /\ last = Ran("event", "ok")

\* init(): loadConfig() settles
init(cfg) ==
  /\ configPending
  /\ configPending' = FALSE
  /\ LET key == loadConfig(cfg)
     IN IF key.threw
        THEN /\ el' = showError(el, key.message)
             /\ last' = Ran("event", "ok")
             /\ UNCHANGED apiKey
        ELSE /\ apiKey' = key.value
             /\ last' = Ran("event", "ok")
             /\ UNCHANGED el
  /\ UNCHANGED <<currentCode, currentLanguage, analysisResult, chatHistory, inflight, nextId>>

\* an onCodeInput that enables the Analyze button for any non-empty code
onCodeInputAnyLength(value) ==
  /\ ~el.codeInputDisabled
  /\ currentCode' = value
  /\ el' = setAnalyzeButtonEnabled(
             updateCharCount([el EXCEPT !.codeInputValue = value], TextLength(value)),
             TextLength(value) >= 1)
  /\ last' = Ran("event", "ok")
  /\ UNCHANGED <<apiKey, currentLanguage, analysisResult, chatHistory,
                 configPending, inflight, nextId>>

\* the user edits the code input
onCodeInput(value) ==
  /\ ~el.codeInputDisabled
  /\ currentCode' = value
  /\ el' = setAnalyzeButtonEnabled(
             updateCharCount([el EXCEPT !.codeInputValue = value], TextLength(value)),
             TextLength(value) >= 10)
  /\ last' = Ran("event", "ok")
  /\ UNCHANGED <<apiKey, currentLanguage, analysisResult, chatHistory,
                 configPending, inflight, nextId>>

onLanguageChange(language) ==
  /\ ~el.languageSelectDisabled
  /\ currentLanguage' = language
  /\ el' = [el EXCEPT !.languageSelectValue = language]
  /\ last' = Ran("event", "ok")
  /\ UNCHANGED <<apiKey, currentCode, analysisResult, chatHistory,
                 configPending, inflight, nextId>>

\* an onAnalyze that starts the analysis with an empty chat history
onAnalyzeClearsChat ==
  /\ ~el.analyzeBtnDisabled
  /\ IF Falsy(apiKey)
     THEN /\ el' = showError(el, MsgNoKey)
          /\ last' = Ran("onAnalyze", "no key")
          /\ UNCHANGED <<inflight, nextId, chatHistory>>
     ELSE /\ nextId <= MaxRequests
          /\ el' = setLoading(hideError(el), TRUE)
          /\ inflight' = inflight \cup
               {[id |-> nextId, kind |-> "analyze", stage |-> "fetch",
                 code |-> currentCode, language |-> currentLanguage, question |-> <<>>,
                 request |-> callGeminiRequest(
                   buildAnalysisPrompt(currentCode, currentLanguage), apiKey, TRUE)]}
          /\ nextId' = nextId + 1
          /\ last' = Ran("onAnalyze", "sent")
          /\ chatHistory' = <<>>
  /\ UNCHANGED <<apiKey, currentCode, currentLanguage, analysisResult, configPending>>

\* onAnalyze, lines 72-87: up to the await
onAnalyze ==
  /\ ~el.analyzeBtnDisabled
  /\ IF Falsy(apiKey)
     THEN /\ el' = showError(el, MsgNoKey)
          /\ last' = Ran("onAnalyze", "no key")
          /\ UNCHANGED <<inflight, nextId>>
     ELSE /\ nextId <= MaxRequests
          /\ el' = setLoading(hideError(el), TRUE)
          /\ inflight' = inflight \cup
               {[id |-> nextId, kind |-> "analyze", stage |-> "fetch",
                 code |-> currentCode, language |-> currentLanguage, question |-> <<>>,
                 request |-> callGeminiRequest(
                   buildAnalysisPrompt(currentCode, currentLanguage), apiKey, TRUE)]}
          /\ nextId' = nextId + 1
          /\ last' = Ran("onAnalyze", "sent")
  /\ UNCHANGED <<stateVars, configPending>>

\* a finally block that does not end the loading state
onAnalyzeFinallyStillLoading(e, code) ==
  setAnalyzeButtonEnabled(e, TextLength(code) >= 10)

\* onAnalyze, lines 93-97: the finally block
onAnalyzeFinally(e, code) ==
  setAnalyzeButtonEnabled(setLoading(e, FALSE), TextLength(code) >= 10)

\* an onAnalyze that stores a result only when none is stored
onAnalyzeSettledKeepsEarlier(r, res) ==
  /\ inflight' = inflight \ {r}
  /\ IF res.threw
     THEN /\ el' = onAnalyzeFinally(showError(el, res.message), r.code)
          /\ last' = Ran("onAnalyze", "error")
          /\ UNCHANGED analysisResult
     ELSE /\ analysisResult' = IF analysisResult = NULL THEN res.value ELSE analysisResult
          /\ IF renderResultsThrows(res.value)
             THEN /\ el' = onAnalyzeFinally(
                             showError(renderResults(el, res.value, r.code),
                                       renderResultsMessage(res.value)), r.code)
                  /\ last' = Ran("onAnalyze", "render error")
             ELSE /\ el' = onAnalyzeFinally(
                             showChatPanel(renderResults(el, res.value, r.code)), r.code)
                  /\ last' = Ran("onAnalyze", "rendered")
  /\ UNCHANGED <<apiKey, currentCode, currentLanguage, chatHistory, configPending, nextId>>

\* onAnalyze, lines 87-97: api.analyzeCode has settled with outcome res
onAnalyzeSettled(r, res) ==
  /\ inflight' = inflight \ {r}
  /\ IF res.threw
     THEN /\ el' = onAnalyzeFinally(showError(el, res.message), r.code)
          /\ last' = Ran("onAnalyze", "error")
          /\ UNCHANGED analysisResult
     ELSE /\ analysisResult' = res.value
          /\ IF renderResultsThrows(res.value)
             THEN /\ el' = onAnalyzeFinally(
                             showError(renderResults(el, res.value, r.code),
                                       renderResultsMessage(res.value)), r.code)
                  /\ last' = Ran("onAnalyze", "render error")
             ELSE /\ el' = onAnalyzeFinally(
                             showChatPanel(renderResults(el, res.value, r.code)), r.code)
                  /\ last' = Ran("onAnalyze", "rendered")
  /\ UNCHANGED <<apiKey, currentCode, currentLanguage, chatHistory, configPending, nextId>>

\* a fetch that is issued again, as a new request, when it has failed
onAnalyzeFetchedRetries(r, f) ==
  /\ r \in Pending("analyze")
  /\ r.stage = "fetch"
  /\ LET res == callGeminiFetched(f)
     IN IF res.threw /\ nextId <= MaxRequests
        THEN /\ inflight' = (inflight \ {r}) \cup {[r EXCEPT !.id = nextId]}
             /\ nextId' = nextId + 1
             /\ last' = Ran("event", "ok")
             /\ UNCHANGED <<stateVars, el, configPending>>
        ELSE IF res.threw
        THEN onAnalyzeSettled(r, res)
        ELSE /\ inflight' = (inflight \ {r}) \cup {[r EXCEPT !.stage = "body"]}
             /\ last' = Ran("event", "ok")
             /\ UNCHANGED <<stateVars, el, configPending, nextId>>

\* the fetch of an analysis request settles
onAnalyzeFetched(r, f) ==
  /\ r \in Pending("analyze")
  /\ r.stage = "fetch"
  /\ LET res == callGeminiFetched(f)
     IN IF res.threw
        THEN onAnalyzeSettled(r, res)
        ELSE /\ inflight' = (inflight \ {r}) \cup {[r EXCEPT !.stage = "body"]}
             /\ last' = Ran("event", "ok")
             /\ UNCHANGED <<stateVars, el, configPending, nextId>>

\* the body of an analysis response settles
onAnalyzeBody(r, b) ==
  /\ r \in Pending("analyze")
  /\ r.stage = "body"
  /\ LET text == callGeminiBody(b)
     IN IF text.threw
        THEN onAnalyzeSettled(r, text)
        ELSE onAnalyzeSettled(r, analyzeCodeText(text.value, r.code))

onClear ==
  /\ ~el.clearBtnDisabled
  /\ stateReset
  /\ el' = uiReset
  /\ last' = Ran("onClear", "ok")
  /\ UNCHANGED <<configPending, inflight, nextId>>

onDismissError ==
  /\ el' = hideError(el)
  /\ last' = Ran("event", "ok")
  /\ UNCHANGED <<stateVars, configPending, inflight, nextId>>

\* the user types into the chat input
onChatInput(value) ==
  /\ ~el.chatInputDisabled
  /\ el' = [el EXCEPT !.chatInputValue = value]
  /\ last' = Ran("event", "ok")
  /\ UNCHANGED <<stateVars, configPending, inflight, nextId>>

\* onChatSend without the test of analysisResult
onChatSendNoResultTest(via) ==
  LET question == Trim(el.chatInputValue)
  IN IF question = <<>> \/ Falsy(apiKey)
     THEN /\ last' = Ran(via, "ignored")
          /\ UNCHANGED <<stateVars, el, configPending, inflight, nextId>>
     ELSE /\ nextId <= MaxRequests
          /\ chatHistory' = Append(chatHistory, ChatEntry("user", question))
          /\ el' = setChatSending(
                     clearChatInput(appendChatMessage(el, "user", question)), TRUE)
          /\ inflight' = inflight \cup
               {[id |-> nextId, kind |-> "followup", stage |-> "fetch",
                 code |-> currentCode, language |-> currentLanguage, question |-> question,
                 request |-> callGeminiRequest(
                   buildFollowUpPrompt(question, currentCode, analysisResult),
                   apiKey, FALSE)]}
          /\ nextId' = nextId + 1
          /\ last' = Ran(via, "sent")
          /\ UNCHANGED <<apiKey, currentCode, currentLanguage, analysisResult, configPending>>

\* onChatSend, lines 125-138: up to the await; via is the listener that called it
onChatSend(via) ==
  LET question == Trim(el.chatInputValue)
  IN IF question = <<>> \/ Falsy(apiKey) \/ Falsy(analysisResult)
     THEN /\ last' = Ran(via, "ignored")
          /\ UNCHANGED <<stateVars, el, configPending, inflight, nextId>>
     ELSE /\ nextId <= MaxRequests
          /\ chatHistory' = Append(chatHistory, ChatEntry("user", question))
          /\ el' = setChatSending(
                     clearChatInput(appendChatMessage(el, "user", question)), TRUE)
          /\ inflight' = inflight \cup
               {[id |-> nextId, kind |-> "followup", stage |-> "fetch",
                 code |-> currentCode, language |-> currentLanguage, question |-> question,
                 request |-> callGeminiRequest(
                   buildFollowUpPrompt(question, currentCode, analysisResult),
                   apiKey, FALSE)]}
          /\ nextId' = nextId + 1
          /\ last' = Ran(via, "sent")
          /\ UNCHANGED <<apiKey, currentCode, currentLanguage, analysisResult, configPending>>

\* click on the Send button
onChatSendClick ==
  /\ ~el.chatSendBtnDisabled
  /\ onChatSend("onChatSend")

\* keydown in the chat input
onChatKeyDown(key, shiftKey) ==
  /\ ~el.chatInputDisabled
  /\ IF key = "Enter" /\ ~shiftKey
     THEN onChatSend("onChatKeyDown")
     ELSE /\ last' = Ran("event", "ok")
          /\ UNCHANGED <<stateVars, el, configPending, inflight, nextId>>

\* an onChatSend that puts the reply in the place of the last entry
onChatSendSettledOverwrites(r, res) ==
  /\ inflight' = inflight \ {r}
  /\ IF res.threw
     THEN /\ el' = setChatSending(showError(el, res.message), FALSE)
          /\ last' = Ran("onChatSend", "error")
          /\ UNCHANGED chatHistory
     ELSE /\ chatHistory' =
               IF chatHistory = <<>> THEN <<ChatEntry("gemini", res.value)>>
               ELSE [chatHistory EXCEPT ![Len(chatHistory)] = ChatEntry("gemini", res.value)]
          /\ el' = setChatSending(appendChatMessage(el, "gemini", res.value), FALSE)
          /\ last' = Ran("onChatSend", "replied")
  /\ UNCHANGED <<apiKey, currentCode, currentLanguage, analysisResult, configPending, nextId>>

\* onChatSend, lines 138-145: api.sendFollowUp has settled with outcome res
onChatSendSettled(r, res) ==
  /\ inflight' = inflight \ {r}
  /\ IF res.threw
     THEN /\ el' = setChatSending(showError(el, res.message), FALSE)
          /\ last' = Ran("onChatSend", "error")
          /\ UNCHANGED chatHistory
     ELSE /\ chatHistory' = Append(chatHistory, ChatEntry("gemini", res.value))
          /\ el' = setChatSending(appendChatMessage(el, "gemini", res.value), FALSE)
          /\ last' = Ran("onChatSend", "replied")
  /\ UNCHANGED <<apiKey, currentCode, currentLanguage, analysisResult, configPending, nextId>>

\* the fetch of a follow-up request settles
onChatSendFetched(r, f) ==
  /\ r \in Pending("followup")
  /\ r.stage = "fetch"
  /\ LET res == callGeminiFetched(f)
     IN IF res.threw
        THEN onChatSendSettled(r, res)
        ELSE /\ inflight' = (inflight \ {r}) \cup {[r EXCEPT !.stage = "body"]}
             /\ last' = Ran("event", "ok")
             /\ UNCHANGED <<stateVars, el, configPending, nextId>>

\* the body of a follow-up response settles
onChatSendBody(r, b) ==
  /\ r \in Pending("followup")
  /\ r.stage = "body"
  /\ onChatSendSettled(r, callGeminiBody(b))

Next ==
  \/ \E cfg \in ConfigOutcomes : init(cfg)
  \/ \E value \in CodeInputs : onCodeInput(value)
  \/ \E language \in Languages : onLanguageChange(language)
  \/ onAnalyze
  \/ \E r \in inflight : \E f \in FetchOutcomes : onAnalyzeFetched(r, f)
  \/ \E r \in inflight : \E b \in BodyOutcomes("analyze") : onAnalyzeBody(r, b)
  \/ onClear
  \/ onDismissError
  \/ \E value \in ChatInputs : onChatInput(value)
  \/ onChatSendClick
  \/ \E key \in Keys : \E shiftKey \in BOOLEAN : onChatKeyDown(key, shiftKey)
  \/ \E r \in inflight : \E f \in FetchOutcomes : onChatSendFetched(r, f)
  \/ \E r \in inflight : \E b \in BodyOutcomes("followup") : onChatSendBody(r, b)

Spec == Init /\ [][Next]_vars

-----------------------------------------------------------------------------
(* One call under every response.  ClientSpec starts where a call has just *)
(* been issued (a first analysis of a typed code, a second analysis or a   *)
(* follow-up question after a rendered one) and lets the fetch and the     *)
(* body of that call settle in every way ClientFetchOutcomes and           *)
(* ClientBodyOutcomes list.                                                *)

\* the page after onCodeInput(code)
ElTyped(code) ==
  setAnalyzeButtonEnabled(
    updateCharCount([uiReset EXCEPT !.codeInputValue = code], TextLength(code)),
    TextLength(code) >= 10)

\* the page after onAnalyze has issued the request
ElAnalyzing(code) == setLoading(hideError(ElTyped(code)), TRUE)

\* the page after the analysis has returned ResultGood
ElRendered(code) ==
  onAnalyzeFinally(showChatPanel(renderResults(ElAnalyzing(code), ResultGood, code)), code)

\* the page after onChatSend has issued the request for the question
ElAsking(code, question) ==
  setChatSending(clearChatInput(appendChatMessage(ElRendered(code), "user", question)), TRUE)

QuestionWhy == <<Word("why?")>>

ClientInit ==
  /\ apiKey = KeyK
  /\ currentCode \in ClientCodes
  /\ currentLanguage = "auto"
  /\ configPending = FALSE
  /\ \/ /\ analysisResult = NULL
        /\ chatHistory = <<>>
        /\ el = ElAnalyzing(currentCode)
        /\ inflight =
             {[id |-> 1, kind |-> "analyze", stage |-> "fetch",
               code |-> currentCode, language |-> currentLanguage, question |-> <<>>,
               request |-> callGeminiRequest(
                 buildAnalysisPrompt(currentCode, currentLanguage), apiKey, TRUE)]}
        /\ nextId = 2
        /\ last = Ran("onAnalyze", "sent")
     \/ /\ analysisResult = ResultGood
        /\ chatHistory = <<>>
        /\ el = setLoading(hideError(ElRendered(currentCode)), TRUE)
        /\ inflight =
             {[id |-> 2, kind |-> "analyze", stage |-> "fetch",
               code |-> currentCode, language |-> currentLanguage, question |-> <<>>,
               request |-> callGeminiRequest(
                 buildAnalysisPrompt(currentCode, currentLanguage), apiKey, TRUE)]}
        /\ nextId = 3
        /\ last = Ran("onAnalyze", "sent")
     \/ /\ analysisResult = ResultGood
        /\ chatHistory = <<ChatEntry("user", QuestionWhy)>>
        /\ el = ElAsking(currentCode, QuestionWhy)
        /\ inflight =
             {[id |-> 2, kind |-> "followup", stage |-> "fetch",
               code |-> currentCode, language |-> currentLanguage,
               question |-> QuestionWhy,
               request |-> callGeminiRequest(
                 buildFollowUpPrompt(QuestionWhy, currentCode, analysisResult),
                 apiKey, FALSE)]}
        /\ nextId = 3
        /\ last = Ran("onChatSend", "sent")

ClientNext ==
  \/ \E r \in inflight : \E f \in ClientFetchOutcomes : onAnalyzeFetched(r, f)
  \/ \E r \in inflight : \E b \in ClientBodyOutcomes("analyze") : onAnalyzeBody(r, b)
  \/ \E r \in inflight : \E f \in ClientFetchOutcomes : onChatSendFetched(r, f)
  \/ \E r \in inflight : \E b \in ClientBodyOutcomes("followup") : onChatSendBody(r, b)

ClientSpec == ClientInit /\ [][ClientNext]_vars

-----------------------------------------------------------------------------
(* script.js: the single-file page.  Its elements are the map el; the      *)
(* state of state.js is not used.  The classes the panels carry when the   *)
(* page loads come from the HTML, so LegacyInit takes every combination.   *)

MaxTextLen == 4

SMELLS == Word("SMELLS:")
REFACTORED == Word("REFACTORED:")

LEGACY_ENDPOINT ==
  "https://generativelanguage.googleapis.com/v1/models/gemini-2.5-flash:generateContent"

MsgEnterBoth == "Please enter both API key and code"
MsgLegacyNetwork == "Network error. Check internet connection or API key."
MsgFailedToFetch == "Failed to fetch"
MsgNetworkError == "NetworkError when attempting to fetch resource."
MsgReadUndefined == "Cannot read properties of undefined"
MsgSplitNotAFunction == "text.split is not a function"
MsgKeyNotValid == "API key not valid. Please pass a valid API key."
MsgNoRefactoring == <<Word("No refactoring provided")>>
MsgApiError(status) == "API error: " \o ToString(status)

\* 'Error: ' + err.message, or the network message when err.message
\* includes 'Failed to fetch'
CaughtMessage(message) ==
  IF message = MsgFailedToFetch THEN MsgLegacyNetwork ELSE "Error: " \o message

hideAllKeepsResults(e) == [e EXCEPT !.loadingHidden = TRUE, !.errorHidden = TRUE]

hideAll(e) == [e EXCEPT !.loadingHidden = TRUE, !.errorHidden = TRUE, !.resultsHidden = TRUE]

scriptShowError(e, message) ==
  [hideAll(e) EXCEPT !.errorText = message, !.errorHidden = FALSE]

\* text.split('REFACTORED:')
RECURSIVE Split(_)
Split(text) ==
  IF \A i \in DOMAIN text : text[i] # REFACTORED THEN <<text>>
  ELSE LET i == CHOOSE j \in DOMAIN text :
                  text[j] = REFACTORED /\ \A k \in 1..(j - 1) : text[k] # REFACTORED
       IN <<SubSeq(text, 1, i - 1)>> \o Split(SubSeq(text, i + 1, Len(text)))

\* part.replace('SMELLS:', '')
RemoveSmellsLabel(part) ==
  IF \A i \in DOMAIN part : part[i] # SMELLS THEN part
  ELSE LET i == CHOOSE j \in DOMAIN part :
                  part[j] = SMELLS /\ \A k \in 1..(j - 1) : part[k] # SMELLS
       IN SubSeq(part, 1, i - 1) \o SubSeq(part, i + 1, Len(part))

showResultsUntrimmed(e, text) ==
  LET parts == Split(text)
      smellsText == Trim(RemoveSmellsLabel(parts[1]))
      refactoredText == IF Len(parts) >= 2 /\ parts[2] # <<>>
                        THEN parts[2] ELSE MsgNoRefactoring
  IN [e EXCEPT !.smellsText = smellsText,
               !.refactoredText = refactoredText,
               !.loadingHidden = TRUE,
               !.resultsHidden = FALSE]

\* script.js, lines 43-49: the panels from the text of the response
showResults(e, text) ==
  LET parts == Split(text)
      smellsText == Trim(RemoveSmellsLabel(parts[1]))
      refactoredText == IF Len(parts) >= 2 /\ parts[2] # <<>>
                        THEN Trim(parts[2]) ELSE MsgNoRefactoring
  IN [e EXCEPT !.smellsText = smellsText,
               !.refactoredText = refactoredText,
               !.loadingHidden = TRUE,
               !.resultsHidden = FALSE]

\* script.js, lines 21-36: the request handed to fetch
legacyRequest(code, key) ==
  [url |-> [base |-> LEGACY_ENDPOINT, query |-> <<[name |-> "key", value |-> JsStr(key)]>>],
   method |-> "POST",
   headers |-> [contentType |-> "application/json"],
   body |-> [contents |-> [template |-> "legacy", code |-> code]]]

LegacyCodes == {<<>>, <<WS>>, CodeA}

LegacyKeys == {<<>>, <<WS, Word("test-key"), WS>>}

LegacyStatuses == {200, 204, 400, 500}

LegacyFetchOutcomes ==
  {[k |-> "reject", message |-> m] : m \in {MsgFailedToFetch, MsgNetworkError}}
    \cup {[k |-> "response", status |-> st] : st \in LegacyStatuses}

\* the bodies of the error responses
LegacyErrorBodies ==
  {[k |-> "reject", message |-> "Unexpected end of JSON input"],
   [k |-> "json", data |-> NULL],
   [k |-> "json", data |-> JsObj(NoProps)],
   [k |-> "json", data |-> JsObj([error |-> JsObj([message |-> JsStr(<<Word(MsgKeyNotValid)>>)])])]}

\* the texts of at most n tokens
RECURSIVE TextsUpTo(_)
TextsUpTo(n) ==
  IF n = 0 THEN {<<>>}
  ELSE LET shorter == TextsUpTo(n - 1)
       IN shorter \cup {Append(t, tok) : t \in {u \in shorter : Len(u) = n - 1},
                                        tok \in {WS, SMELLS, REFACTORED, Word("x")}}

LegacyTexts == TextsUpTo(MaxTextLen)

\* the texts the page gets under LegacySpec
LegacyReplyTexts ==
  {<<SMELLS, WS, Word("x"), WS, REFACTORED, WS, Word("x")>>, <<Word("x")>>}

LegacyBodies(texts) ==
  {[k |-> "reject", message |-> "Unexpected end of JSON input"],
   [k |-> "json", data |-> JsObj(NoProps)],
   [k |-> "json", data |-> Envelope(JsNum(5))]}
    \cup {[k |-> "json", data |-> Envelope(JsStr(t))] : t \in texts}

LegacyInit ==
  /\ apiKey = NULL
  /\ currentCode = <<>>
  /\ currentLanguage = "auto"
  /\ analysisResult = NULL
  /\ chatHistory = <<>>
  /\ configPending = FALSE
  /\ \E lh \in BOOLEAN, eh \in BOOLEAN, rh \in BOOLEAN :
       el = [input |-> <<>>, apikey |-> <<>>, buttonDisabled |-> FALSE,
             loadingHidden |-> lh, errorHidden |-> eh, resultsHidden |-> rh,
             errorText |-> "", smellsText |-> <<>>, refactoredText |-> <<>>]
  /\ inflight = {}
  /\ nextId = 1
  /\ last = Ran("event", "ok")

\* the user edits the code
legacyCodeInput(value) ==
  /\ el' = [el EXCEPT !.input = value]
  /\ UNCHANGED <<stateVars, configPending, inflight, nextId, last>>

\* the user edits the key
legacyKeyInput(value) ==
  /\ el' = [el EXCEPT !.apikey = value]
  /\ UNCHANGED <<stateVars, configPending, inflight, nextId, last>>

\* a click that tests the inputs without trimming them
analyzeCodeClickUntrimmed ==
  /\ ~el.buttonDisabled
  /\ LET code == Trim(el.input)
         key == Trim(el.apikey)
     IN IF el.input = <<>> \/ el.apikey = <<>>
        THEN /\ el' = scriptShowError(el, MsgEnterBoth)
             /\ last' = Ran("analyzeCode", "missing")
             /\ UNCHANGED <<inflight, nextId>>
        ELSE /\ nextId <= MaxRequests
             /\ el' = [hideAll(el) EXCEPT !.loadingHidden = FALSE, !.buttonDisabled = TRUE]
             /\ inflight' = inflight \cup
                  {[id |-> nextId, kind |-> "legacy", stage |-> "fetch", status |-> 0,
                    code |-> code, key |-> key, request |-> legacyRequest(code, key)]}
             /\ nextId' = nextId + 1
             /\ last' = Ran("analyzeCode", "sent")
  /\ UNCHANGED <<stateVars, configPending>>

\* script.js analyzeCode, lines 10-32: the click, up to the await of fetch
analyzeCodeClick ==
  /\ ~el.buttonDisabled
  /\ LET code == Trim(el.input)
         key == Trim(el.apikey)
     IN IF code = <<>> \/ key = <<>>
        THEN /\ el' = scriptShowError(el, MsgEnterBoth)
             /\ last' = Ran("analyzeCode", "missing")
             /\ UNCHANGED <<inflight, nextId>>
        ELSE /\ nextId <= MaxRequests
             /\ el' = [hideAll(el) EXCEPT !.loadingHidden = FALSE, !.buttonDisabled = TRUE]
             /\ inflight' = inflight \cup
                  {[id |-> nextId, kind |-> "legacy", stage |-> "fetch", status |-> 0,
                    code |-> code, key |-> key, request |-> legacyRequest(code, key)]}
             /\ nextId' = nextId + 1
             /\ last' = Ran("analyzeCode", "sent")
  /\ UNCHANGED <<stateVars, configPending>>

\* a catch block without the finally block
analyzeCodeCaughtNoFinally(r, message) ==
  /\ inflight' = inflight \ {r}
  /\ el' = scriptShowError(el, CaughtMessage(message))
  /\ last' = Ran("analyzeCode", "error")
  /\ UNCHANGED <<stateVars, configPending, nextId>>

\* script.js, lines 50-58: the catch and the finally block
analyzeCodeCaught(r, message) ==
  /\ inflight' = inflight \ {r}
  /\ el' = [scriptShowError(el, CaughtMessage(message)) EXCEPT !.buttonDisabled = FALSE]
  /\ last' = Ran("analyzeCode", "error")
  /\ UNCHANGED <<stateVars, configPending, nextId>>

\* script.js, lines 32-41: fetch has settled with outcome f
analyzeCodeFetched(r, f) ==
  /\ r \in Pending("legacy")
  /\ r.stage = "fetch"
  /\ IF f.k = "reject"
     THEN analyzeCodeCaught(r, f.message)
     ELSE /\ inflight' = (inflight \ {r}) \cup
               {[r EXCEPT !.stage = IF ResponseOk(f.status) THEN "body" ELSE "error body",
                          !.status = f.status]}
          /\ UNCHANGED <<stateVars, el, configPending, nextId, last>>

\* script.js, lines 38-39: the body of an error response has settled
analyzeCodeErrorBody(r, b) ==
  /\ r \in Pending("legacy")
  /\ r.stage = "error body"
  /\ IF b.k = "reject" THEN analyzeCodeCaught(r, b.message)
     ELSE IF b.data = NULL THEN analyzeCodeCaught(r, MsgReadNull)
     ELSE LET message == OptGet(Get(b.data, "error"), "message")
          IN IF Falsy(message) THEN analyzeCodeCaught(r, MsgApiError(r.status))
             ELSE analyzeCodeCaught(r, message.s[1].w)

\* script.js, lines 41-49: the body of an ok response has settled
analyzeCodeBody(r, b) ==
  /\ r \in Pending("legacy")
  /\ r.stage = "body"
  /\ IF b.k = "reject" THEN analyzeCodeCaught(r, b.message)
     ELSE IF Get(b.data, "candidates") = UNDEF THEN analyzeCodeCaught(r, MsgReadUndefined)
     ELSE LET text == Get(Idx(Get(Get(Idx(Get(b.data, "candidates"), 0), "content"),
                                  "parts"), 0), "text")
          IN IF ~IsString(text) THEN analyzeCodeCaught(r, MsgSplitNotAFunction)
             ELSE /\ inflight' = inflight \ {r}
                  /\ el' = [showResults(el, text.s) EXCEPT !.buttonDisabled = FALSE]
                  /\ last' = Ran("analyzeCode", "shown")
                  /\ UNCHANGED <<stateVars, configPending, nextId>>

LegacyNext ==
  \/ \E value \in LegacyCodes : legacyCodeInput(value)
  \/ \E value \in LegacyKeys : legacyKeyInput(value)
  \/ analyzeCodeClick
  \/ \E r \in inflight : \E f \in LegacyFetchOutcomes : analyzeCodeFetched(r, f)
  \/ \E r \in inflight : \E b \in LegacyErrorBodies : analyzeCodeErrorBody(r, b)
  \/ \E r \in inflight : \E b \in LegacyBodies(LegacyReplyTexts) : analyzeCodeBody(r, b)

LegacySpec == LegacyInit /\ [][LegacyNext]_vars

\* One call of the page under every response: LegacyCallSpec starts where
\* the click has just issued the request, on a fresh page or on a page that
\* shows the result of an earlier call.
LegacyCallInit ==
  /\ apiKey = NULL
  /\ currentCode = <<>>
  /\ currentLanguage = "auto"
  /\ analysisResult = NULL
  /\ chatHistory = <<>>
  /\ configPending = FALSE
  /\ \E earlier \in BOOLEAN :
       LET page == [input |-> CodeA, apikey |-> <<WS, Word("test-key"), WS>>,
                    buttonDisabled |-> TRUE,
                    loadingHidden |-> TRUE, errorHidden |-> TRUE, resultsHidden |-> TRUE,
                    errorText |-> "", smellsText |-> <<>>, refactoredText |-> <<>>]
           shown == showResults(page, <<SMELLS, WS, Word("x"), WS, REFACTORED, WS, Word("x")>>)
       IN /\ el = [hideAll(IF earlier THEN shown ELSE page) EXCEPT !.loadingHidden = FALSE]
          /\ nextId = IF earlier THEN 3 ELSE 2
  /\ inflight =
       {[id |-> nextId - 1, kind |-> "legacy", stage |-> "fetch", status |-> 0,
         code |-> CodeA, key |-> <<Word("test-key")>>,
         request |-> legacyRequest(CodeA, <<Word("test-key")>>)]}
  /\ last = Ran("analyzeCode", "sent")

LegacyCallNext ==
  \/ \E r \in inflight : \E f \in LegacyFetchOutcomes : analyzeCodeFetched(r, f)
  \/ \E r \in inflight : \E b \in LegacyErrorBodies : analyzeCodeErrorBody(r, b)
  \/ \E r \in inflight : \E b \in LegacyBodies(LegacyTexts) : analyzeCodeBody(r, b)

LegacyCallSpec == LegacyCallInit /\ [][LegacyCallNext]_vars

-----------------------------------------------------------------------------
(* Notions the properties share                                            *)

Ids(rs) == {r.id : r \in rs}

\* the step ends the pending invocation of the given kind with the given result
Settles(kind, outs) ==
  /\ Ids(Pending(kind)) \ Ids(inflight') # {}
  /\ last'.op = (IF kind = "analyze" THEN "onAnalyze" ELSE "onChatSend")
  /\ last'.out \in outs

\* the step is a run of onChatSend, from the button or from the Enter key
ChatSendRuns ==
  /\ last' # last
  /\ last'.op \in {"onChatSend", "onChatKeyDown"}
  /\ last'.out \in {"ignored", "sent"}

-----------------------------------------------------------------------------
(* C1: at most one completion request (analysis or follow-up) is           *)
(* outstanding in every reachable state.                                   *)
C1_AtMostOneOutstanding == Cardinality(inflight) <= 1

(* C2: while an analysis is in flight the Analyze button is disabled, so a *)
(* further analyze is rejected: no step issues a second analysis request,  *)
(* and analysisResult changes only when the analysis in flight settles.    *)
C2_AnalyzeRejectedWhileAnalyzing ==
  [][Pending("analyze") # {} =>
       /\ el.analyzeBtnDisabled
       /\ Ids(Pending("analyze")') \subseteq Ids(Pending("analyze"))
       /\ (analysisResult' # analysisResult =>
             Settles("analyze", {"rendered", "render error"}))]_vars

C2_Witness ==
  /\ Pending("analyze") # {}
  /\ analysisResult # NULL
  /\ TextLength(currentCode) >= 10
  /\ el.analyzeBtnDisabled

(* C3: while an analysis request or a follow-up request is in flight, no   *)
(* step issues a follow-up request or appends a user entry to the chat     *)
(* history.                                                                *)
C3_FollowUpRejectedWhileBusy ==
  [][inflight # {} =>
       /\ Ids(Pending("followup")') \subseteq Ids(Pending("followup"))
       /\ (Len(chatHistory') > Len(chatHistory) =>
             chatHistory'[Len(chatHistory')].role # "user")]_vars

(* C4: every started analyze and every started follow-up eventually        *)
(* settles (a request, once settled, never is in flight again, so request  *)
(* i settles exactly when infinitely often it is not in flight), and the   *)
(* step that settles it re-enables its controls: after an                  *)
(* analysis the loading state is off and the Analyze button is enabled     *)
(* when the code has at least 10 characters, after a follow-up the chat    *)
(* input and the Send button are enabled.                                  *)
C4_NeverStuck ==
  /\ \A i \in 1..MaxRequests : []<>(i \notin Ids(inflight))
  /\ [][/\ (Settles("analyze", {"rendered", "render error", "error"}) =>
               (/\ el'.loadingHidden
                /\ ~el'.codeInputDisabled
                /\ ~el'.languageSelectDisabled
                /\ ~el'.clearBtnDisabled
                /\ el'.analyzeBtnDisabled = ~(TextLength(currentCode') >= 10)))
          /\ (Settles("followup", {"replied", "error"}) =>
               (/\ ~el'.chatSendBtnDisabled
                /\ ~el'.chatInputDisabled))]_vars

C4_Witness ==
  /\ last = Ran("onAnalyze", "error")
  /\ inflight = {}
  /\ ~el.analyzeBtnDisabled
  /\ ~el.clearBtnDisabled
  /\ el.loadingHidden

\* request i settles one await: its fetch or the read of its body
Responds(i) ==
  \E r \in inflight :
    /\ r.id = i
    /\ \/ \E f \in FetchOutcomes : onAnalyzeFetched(r, f)
       \/ \E b \in BodyOutcomes("analyze") : onAnalyzeBody(r, b)
       \/ \E f \in FetchOutcomes : onChatSendFetched(r, f)
       \/ \E b \in BodyOutcomes("followup") : onChatSendBody(r, b)

\* every request gets a response, a transport failure or a timeout
FairSpec == Spec /\ \A i \in 1..MaxRequests : WF_vars(Responds(i))

(* C5: an analyze call that ends by reporting an error leaves              *)
(* analysisResult as it was.                                               *)
C5_ErrorLeavesResult ==
  [][Settles("analyze", {"error", "render error"}) =>
       analysisResult' = analysisResult]_vars

(* C6: an analyze request answered with HTTP 429 ends with the rate-limit  *)
(* error shown and analysisResult unchanged; since the call started        *)
(* analysisResult was changed by no other step.                            *)
C6_RateLimited ==
  [][/\ \A r \in Pending("analyze") :
          (onAnalyzeFetched(r, [k |-> "response", status |-> 429]) =>
             (/\ analysisResult' = analysisResult
              /\ el'.errorMessage = MsgRateLimited
              /\ ~el'.errorHidden
              /\ last' = Ran("onAnalyze", "error")))
     /\ ((Pending("analyze") # {} /\ analysisResult' # analysisResult) =>
           Settles("analyze", {"rendered", "render error"}))]_vars

C6_Witness ==
  /\ last = Ran("onAnalyze", "error")
  /\ el.errorMessage = MsgRateLimited
  /\ ~el.errorHidden
  /\ analysisResult # NULL

(* C7: reset leaves no request in flight, currentCode empty,               *)
(* currentLanguage "auto", analysisResult none, chatHistory empty and the  *)
(* credential as it was.                                                   *)
C7_ResetLeavesIdle ==
  [][last' = Ran("onClear", "ok") =>
       /\ inflight' = {}
       /\ currentCode' = <<>>
       /\ currentLanguage' = "auto"
       /\ analysisResult' = NULL
       /\ chatHistory' = <<>>
       /\ apiKey' = apiKey]_vars

(* C8: when a follow-up with question q succeeds, the history ends with    *)
(* the user entry q and the step appends the assistant entry with the      *)
(* reply right after it.                                                   *)
C8_FollowUpAppendsPair ==
  [][\A r \in Pending("followup") :
       (r.id \notin Ids(inflight') /\ last' = Ran("onChatSend", "replied")) =>
         /\ chatHistory # <<>>
         /\ chatHistory[Len(chatHistory)] = ChatEntry("user", r.question)
         /\ Len(chatHistory') = Len(chatHistory) + 1
         /\ SubSeq(chatHistory', 1, Len(chatHistory)) = chatHistory
         /\ chatHistory'[Len(chatHistory')].role = "gemini"]_vars

(* C9: a follow-up appends the user's question to the history in the step  *)
(* that issues the request; when the request fails the user entry is the   *)
(* last entry of the history, no assistant entry is appended and the error *)
(* is shown.                                                               *)
C9_FailedFollowUpKeepsQuestion ==
  [][/\ ((ChatSendRuns /\ last'.out = "sent") =>
            (\E r \in Pending("followup")' :
               /\ r.id \notin Ids(inflight)
               /\ chatHistory' = Append(chatHistory, ChatEntry("user", r.question))))
     /\ \A r \in Pending("followup") :
          ((r.id \notin Ids(inflight') /\ last' = Ran("onChatSend", "error")) =>
             (/\ chatHistory' = chatHistory
              /\ chatHistory # <<>>
              /\ chatHistory[Len(chatHistory)] = ChatEntry("user", r.question)
              /\ ~el'.errorHidden))]_vars

\* onChatSend runs with a question typed and the key loaded, and no result stored
ChatSendRunsWithoutResult ==
  /\ ChatSendRuns
  /\ analysisResult = NULL
  /\ Trim(el.chatInputValue) # <<>>
  /\ ~Falsy(apiKey)

CredentialMissing ==
  \/ Falsy(apiKey)
  \/ apiKey = JsStr(<<Word("PLACEHOLDER")>>)
  \/ apiKey = JsStr(<<Word("PASTE_YOUR_GEMINI_API_KEY_HERE")>>)

\* the step is a run of onAnalyze up to its first await
AnalyzeRuns ==
  /\ last' # last
  /\ last'.op = "onAnalyze"
  /\ last'.out \in {"no key", "sent"}

C12_OneRequestPerCall ==
  [][LET new == Ids(inflight') \ Ids(inflight)
     IN /\ new \subseteq {nextId}
        /\ nextId' = nextId + Cardinality(new)
        /\ (new # {} <=> ((AnalyzeRuns \/ ChatSendRuns) /\ last'.out = "sent"))
        /\ ((\/ Settles("analyze", {"error", "render error", "rendered"})
             \/ Settles("followup", {"error", "replied"})) => new = {})]_vars

C12_Witness ==
  /\ last = Ran("onChatSend", "error")
  /\ inflight = {}
  /\ nextId = 3

\* the error message the classification of C13 gives the outcome f of a
\* fetch, "" when it gives none
C13_Expected(f) ==
  IF f.k = "reject"
  THEN (IF f.name \in {"TimeoutError", "AbortError"} THEN MsgTimeout ELSE MsgNetwork)
  ELSE IF f.status = 400 THEN MsgBadCredential
  ELSE IF f.status \in {401, 403} THEN MsgUnauthorized
  ELSE IF f.status = 429 THEN MsgRateLimited
  ELSE IF f.status \in 200..299 THEN ""
  ELSE MsgEndpoint(f.status)

(* C13: when the fetch of a call settles, a transport failure ends the     *)
(* call with the network error, status 400 with the bad-credential error,  *)
(* 401 and 403 with the unauthorised error, 429 with the rate-limit error, *)
(* every other status outside 200..299 with the endpoint error that names  *)
(* the status; a status in 200..299 ends the call with none of them: the   *)
(* call goes on to read the body and the page is unchanged.  The messages  *)
(* of different kinds, and of different statuses, differ.                  *)
C13_Classification ==
  [][\A r \in inflight : \A f \in ClientFetchOutcomes :
       (onAnalyzeFetched(r, f) \/ onChatSendFetched(r, f)) =>
         /\ (C13_Expected(f) # "" =>
               (/\ r.id \notin Ids(inflight')
                /\ el'.errorMessage = C13_Expected(f)
                /\ ~el'.errorHidden
                /\ last'.out = "error"))
         /\ (C13_Expected(f) = "" =>
               (/\ inflight' = (inflight \ {r}) \cup {[r EXCEPT !.stage = "body"]}
                /\ el' = el))
         /\ \A g \in ClientFetchOutcomes :
              (C13_Expected(g) = C13_Expected(f) =>
                 (\/ g = f
                  \/ (g.k = "reject" /\ f.k = "reject"
                        /\ (g.name = "TypeError" <=> f.name = "TypeError"))
                  \/ (g.k = "response" /\ f.k = "response"
                        /\ \/ {g.status, f.status} \subseteq {401, 403}
                           \/ {g.status, f.status} \subseteq 200..299)))]_vars

C13_Witness ==
  /\ inflight = {}
  /\ el.errorMessage = MsgEndpoint(503)
  /\ ~el.errorHidden
  /\ last.out = "error"

(* C14: when the timeout expires while a call waits for the response or    *)
(* reads the body, the call ends and the timeout error is shown.           *)
C14_TimeoutFailsWithTimeout ==
  [][\A r \in inflight :
       /\ \A f \in ClientFetchOutcomes :
            ((/\ f.k = "reject"
              /\ f.name = "TimeoutError"
              /\ (onAnalyzeFetched(r, f) \/ onChatSendFetched(r, f))) =>
               (/\ r.id \notin Ids(inflight')
                /\ el'.errorMessage = MsgTimeout))
       /\ \A b \in BodyRejections :
            ((/\ b.name = "TimeoutError"
              /\ (onAnalyzeBody(r, b) \/ onChatSendBody(r, b))) =>
               (/\ r.id \notin Ids(inflight')
                /\ el'.errorMessage = MsgTimeout))]_vars

\* the value at candidates[0].content.parts[0].text of a body, UNDEF when
\* there is none
C15_Text(b) ==
  IF b.k = "reject" THEN UNDEF
  ELSE LET first(v) == IF IsArray(v) /\ Len(v.a) >= 1 THEN v.a[1] ELSE UNDEF
       IN Get(first(Get(Get(first(Get(b.data, "candidates")), "content"), "parts")), "text")

\* the step ends the call with one of the two malformed-envelope errors
C15_FailsMalformed ==
  /\ last'.out = "error"
  /\ el'.errorMessage \in {MsgMalformed, MsgNoContent}
  /\ ~el'.errorHidden

(* C15: when the body of a 2xx response settles, the call fails with a     *)
(* malformed-envelope error exactly when the body cannot be parsed or the  *)
(* nested text is absent, not a text, or empty; otherwise the text is      *)
(* returned unchanged (a follow-up appends it to the history as it is).    *)
C15_MalformedIffAbsentOrEmpty ==
  [][\A r \in inflight : \A b \in ClientBodyOutcomes(r.kind) :
       (onAnalyzeBody(r, b) \/ onChatSendBody(r, b)) =>
         LET text == C15_Text(b)
             malformed == b.k = "reject" \/ ~IsString(text) \/ text.s = <<>>
         IN /\ C15_FailsMalformed <=> malformed
            /\ ((~malformed /\ r.kind = "followup") =>
                  chatHistory' = Append(chatHistory, ChatEntry("gemini", text.s)))]_vars

(* C15 as amended: when the body of a 2xx response settles, the call fails *)
(* with a malformed-envelope error exactly when reading the body as JSON   *)
(* fails or the nested text is absent, not a text, empty or white space    *)
(* only; otherwise the text is returned unchanged, white space around it   *)
(* included (a follow-up appends it to the history as it is).              *)
C15_MalformedIffAbsentOrBlank ==
  [][\A r \in inflight : \A b \in ClientBodyOutcomes(r.kind) :
       (onAnalyzeBody(r, b) \/ onChatSendBody(r, b)) =>
         LET text == C15_Text(b)
             malformed == b.k = "reject" \/ ~IsString(text) \/ Trim(text.s) = <<>>
         IN /\ C15_FailsMalformed <=> malformed
            /\ ((~malformed /\ r.kind = "followup") =>
                  chatHistory' = Append(chatHistory, ChatEntry("gemini", text.s)))]_vars

C15_Witness ==
  /\ inflight = {}
  /\ last = Ran("onChatSend", "replied")
  /\ chatHistory[Len(chatHistory)] = ChatEntry("gemini", <<WS, Word("because"), WS>>)

\* the smells of the stored result
StoredSmells ==
  IF analysisResult # NULL /\ IsArray(Get(analysisResult, "smells"))
  THEN Get(analysisResult, "smells").a ELSE <<>>

(* C16: every smell of the stored analysis result that is an object has    *)
(* the severity Critical, Major or Minor.                                  *)
C16_SeverityNormalized ==
  \A i \in DOMAIN StoredSmells :
    IsObjectLike(StoredSmells[i]) =>
      Get(StoredSmells[i], "severity") \in
        {JsStr(<<Word("Critical")>>), JsStr(<<Word("Major")>>), JsStr(<<Word("Minor")>>)}

(* C17: the refactored_code of the stored analysis result is a text and is *)
(* not empty (every code submitted under ClientSpec is non-empty, and a    *)
(* refactored_code that is missing, not a text or empty is to be replaced  *)
(* by the submitted code).                                                 *)
C17_RefactoredNeverEmpty ==
  analysisResult # NULL =>
    /\ IsString(Get(analysisResult, "refactored_code"))
    /\ Get(analysisResult, "refactored_code").s # <<>>

\* the text of a body that callGemini returns, <<>> when it returns none
C18_Returned(b) ==
  IF b.k = "json" /\ IsString(C15_Text(b)) /\ Trim(C15_Text(b).s) # <<>>
  THEN C15_Text(b).s ELSE <<>>

\* the text is one JSON document once the fences and the white space around
\* it are stripped
C18_IsJson(text) ==
  LET open == IF text # <<>> /\ Head(text) = FENCE
              THEN (IF Len(text) >= 2 /\ text[2] \in {Word("json"), Word("JSON")}
                    THEN TrimStart(SubSeq(text, 3, Len(text)))
                    ELSE TrimStart(Tail(text)))
              ELSE text
      shut == IF open # <<>> /\ open[Len(open)] = FENCE
              THEN SubSeq(open, 1, Len(open) - 1) ELSE open
  IN \E d \in ClientDocs \cup {ResultGood, ResultNullSmell, ResultFenced, ResultFencedPartial} :
       Trim(shut) = <<Doc(d)>>

(* C18: when analyzeCode gets a text that is not one JSON document after   *)
(* the fences are stripped, the call ends with the could-not-parse error   *)
(* shown and with analysisResult as it was.                                *)
C18_NotJsonIsParseError ==
  [][\A r \in inflight : \A b \in ClientBodyOutcomes("analyze") :
       (/\ onAnalyzeBody(r, b)
        /\ C18_Returned(b) # <<>>
        /\ ~C18_IsJson(C18_Returned(b))) =>
         /\ r.id \notin Ids(inflight')
         /\ last' = Ran("onAnalyze", "error")
         /\ el'.errorMessage = MsgParse
         /\ ~el'.errorHidden
         /\ analysisResult' = analysisResult]_vars

C18_Witness ==
  /\ inflight = {}
  /\ last = Ran("onAnalyze", "error")
  /\ el.errorMessage = MsgParse
  /\ ~el.errorHidden
  /\ analysisResult = ResultGood

(* C19: when analyzeCode gets a text that is one JSON document after the   *)
(* fences are stripped, whatever the document, either a result with a text *)
(* summary, an array smells and a text refactored_code is stored, or the   *)
(* call ends with the could-not-parse error; it ends with no other error   *)
(* of analyzeCode.                                                         *)
C19_NormalizationTotal ==
  [][\A r \in inflight : \A b \in ClientBodyOutcomes("analyze") :
       (/\ onAnalyzeBody(r, b)
        /\ C18_Returned(b) # <<>>
        /\ C18_IsJson(C18_Returned(b))) =>
         \/ /\ last'.out \in {"rendered", "render error"}
            /\ IsString(Get(analysisResult', "summary"))
            /\ IsArray(Get(analysisResult', "smells"))
            /\ IsString(Get(analysisResult', "refactored_code"))
         \/ /\ last'.out = "error"
            /\ el'.errorMessage = MsgParse]_vars

(* C20: every element of the smells of the stored analysis result is an    *)
(* object that has a name, a severity, a location and an explanation.      *)
C20_SmellsRepaired ==
  \A i \in DOMAIN StoredSmells :
    /\ StoredSmells[i].t = "obj"
    /\ \A f \in {"name", "severity", "location", "explanation"} :
         ~IsNullish(Get(StoredSmells[i], f))

\* the three severities of the data model
C21_Severities ==
  {JsStr(<<Word("Critical")>>), JsStr(<<Word("Major")>>), JsStr(<<Word("Minor")>>)}

\* d is an AnalysisResult of the data model: a text summary, a non-empty
\* text refactored_code, and smells that are objects with a text name,
\* location and explanation and one of the three severities
C21_ValidResult(d) ==
  /\ d.t = "obj"
  /\ IsString(Get(d, "summary"))
  /\ IsString(Get(d, "refactored_code"))
  /\ Get(d, "refactored_code").s # <<>>
  /\ IsArray(Get(d, "smells"))
  /\ \A i \in DOMAIN Get(d, "smells").a :
       LET smell == Get(d, "smells").a[i]
       IN /\ smell.t = "obj"
          /\ \A f \in {"name", "location", "explanation"} : IsString(Get(smell, f))
          /\ Get(smell, "severity") \in C21_Severities

(* C21: when the text of the envelope is the JSON of an AnalysisResult of  *)
(* the data model (severities already among the three), the analysis is    *)
(* rendered and the stored result has the smells of that JSON, the same    *)
(* number in the same order, each with one of the three severities.        *)
C21_SmellsPreserved ==
  [][\A r \in inflight : \A b \in ClientBodyOutcomes("analyze") :
       (/\ onAnalyzeBody(r, b)
        /\ Len(C18_Returned(b)) = 1
        /\ C18_Returned(b)[1].k = "doc"
        /\ C21_ValidResult(C18_Returned(b)[1].v)) =>
         /\ last' = Ran("onAnalyze", "rendered")
         /\ Get(analysisResult', "smells") = Get(C18_Returned(b)[1].v, "smells")
         /\ \A i \in DOMAIN Get(analysisResult', "smells").a :
              Get(Get(analysisResult', "smells").a[i], "severity") \in C21_Severities]_vars

C21_Witness ==
  /\ last = Ran("onAnalyze", "rendered")
  /\ inflight = {}
  /\ analysisResult # NULL
  /\ Get(analysisResult, "smells") =
       JsArr(<<SmellWith(JsStr(<<Word("Critical")>>)), SmellLPL>>)

(* C22: no request in flight carries the credential it was sent with in    *)
(* its URL: no parameter of the query string has the credential as value.  *)
C22_CredentialNotInUrl ==
  \A r \in inflight :
    \A i \in DOMAIN r.request.url.query :
      r.request.url.query[i].value # JsStr(r.key)

(* C23: when an analysis ends rendered, the stored analysisResult is the   *)
(* normalised result of the response of that call (for the JSON of an      *)
(* AnalysisResult of the data model: that very value), whatever was stored *)
(* before; the page shows that stored value (its refactored code, one card *)
(* per smell, the submitted code as the original); and no analysis is in   *)
(* flight, the loading state is off and the inputs are enabled.            *)
C23_SuccessCommitsOwnResult ==
  [][\A r \in inflight : \A b \in ClientBodyOutcomes("analyze") :
       (onAnalyzeBody(r, b) /\ last' = Ran("onAnalyze", "rendered")) =>
         LET res == analyzeCodeText(C18_Returned(b), r.code)
             smells == Get(analysisResult', "smells").a
         IN /\ ~res.threw
            /\ analysisResult' = res.value
            /\ ((/\ Len(C18_Returned(b)) = 1
                 /\ C18_Returned(b)[1].k = "doc"
                 /\ C21_ValidResult(C18_Returned(b)[1].v)) =>
                  analysisResult' = C18_Returned(b)[1].v)
            /\ ~el'.resultsHidden
            /\ el'.refactoredCode = Get(analysisResult', "refactored_code").s
            /\ el'.originalCode = r.code
            /\ Len(el'.smellsList) = Len(smells)
            /\ \A i \in DOMAIN smells :
                 el'.smellsList[i].name =
                   Coalesce(Get(smells[i], "name"), JsStr(<<Word("Unknown Smell")>>))
            /\ Pending("analyze")' = {}
            /\ el'.loadingHidden
            /\ ~el'.codeInputDisabled
            /\ ~el'.clearBtnDisabled]_vars

C23_Witness ==
  /\ last = Ran("onAnalyze", "rendered")
  /\ nextId = 3
  /\ inflight = {}
  /\ analysisResult # NULL
  /\ analysisResult # ResultGood
  /\ Len(Get(analysisResult, "smells").a) = 2
  /\ Len(el.smellsList) = 2

(* C24: the request a follow-up issues embeds the stored analysisResult    *)
(* and the code that was analysed to get it; when the stored result is one *)
(* that renders, that code is the one the results view shows as the        *)
(* original since the step that stored the result.                         *)
C24_FollowUpEmbedsAnalysedCode ==
  [][(/\ ChatSendRuns
      /\ last'.out = "sent"
      /\ ~renderResultsThrows(analysisResult)) =>
       \A r \in Pending("followup")' :
         (r.id \notin Ids(inflight)) =>
           (/\ r.request.body.contents.analysis = analysisResult
            /\ r.request.body.contents.code = el.originalCode)]_vars

(* C25: every step that is not a reset (onClear) leaves the chat history   *)
(* as it is or appends one entry to it: the entries it had stay, in the    *)
(* same order.                                                             *)
C25_ChatAppendOnly ==
  [][\/ onClear
     \/ chatHistory' = chatHistory
     \/ /\ Len(chatHistory') = Len(chatHistory) + 1
        /\ SubSeq(chatHistory', 1, Len(chatHistory)) = chatHistory]_vars

C25_Witness ==
  /\ Len(chatHistory) = 3
  /\ chatHistory[1].role = "user"
  /\ chatHistory[2].role = "gemini"
  /\ chatHistory[3].role = "user"

(* C26: whenever the Analyze button is enabled, the current code has at    *)
(* least 10 characters and no analysis request is in flight.               *)
C26_AnalyzeEnabledOnlyIfReady ==
  ~el.analyzeBtnDisabled =>
    /\ TextLength(currentCode) >= 10
    /\ Pending("analyze") = {}

C26_Witness ==
  /\ ~el.analyzeBtnDisabled
  /\ TextLength(currentCode) >= 10
  /\ analysisResult # NULL
  /\ Pending("followup") # {}


(* C27: when an analysis ends rendered, the smell list holds one card per  *)
(* smell of the stored result, in the result's order; the count badge      *)
(* reads '0 smells found', '1 smell found' or 'N smells found'; and the    *)
(* 'No code smells detected' message is shown exactly when there is no     *)
(* smell, in which case there is no card.                                  *)
C27_OneCardPerSmell ==
  [][Settles("analyze", {"rendered"}) =>
       LET smells == Get(analysisResult', "smells").a
           n == Len(smells)
       IN /\ ~el'.resultsHidden
          /\ Len(el'.smellsList) = n
          /\ \A i \in 1..n :
               /\ el'.smellsList[i].name =
                    Coalesce(Get(smells[i], "name"), JsStr(<<Word("Unknown Smell")>>))
               /\ el'.smellsList[i].location = Get(smells[i], "location")
               /\ el'.smellsList[i].explanation =
                    Coalesce(Get(smells[i], "explanation"), JsStr(<<>>))
          /\ (n = 0 => el'.smellCountBadge = "0 smells found")
          /\ (n = 1 => el'.smellCountBadge = "1 smell found")
          /\ (n = 2 => el'.smellCountBadge = "2 smells found")
          /\ (el'.noSmellsMessage <=> n = 0)]_vars

C27_Witness ==
  /\ last = Ran("onAnalyze", "rendered")
  /\ analysisResult # NULL
  /\ Len(Get(analysisResult, "smells").a) = 1
  /\ Len(el.smellsList) = 1
  /\ el.smellCountBadge = "1 smell found"
  /\ ~el.noSmellsMessage
  /\ ~el.resultsHidden


\* the index of the first occurrence of a token in a text, 0 when absent
C28_First(text, tok) ==
  LET at == {j \in DOMAIN text : text[j] = tok}
  IN IF at = {} THEN 0 ELSE CHOOSE j \in at : \A k \in at : j <= k

\* the text before the first marker with the first 'SMELLS:' left out
C28_Before(text) ==
  LET before == SubSeq(text, 1, C28_First(text, REFACTORED) - 1)
      label == C28_First(before, SMELLS)
  IN IF label = 0 THEN before
     ELSE [j \in 1..(Len(before) - 1) |-> IF j < label THEN before[j] ELSE before[j + 1]]

\* the text between the first marker and the second one (or the end)
C28_Between(text) ==
  LET after == SubSeq(text, C28_First(text, REFACTORED) + 1, Len(text))
      second == C28_First(after, REFACTORED)
  IN IF second = 0 THEN after ELSE SubSeq(after, 1, second - 1)

\* the step shows the panels for the 200 response whose text is the given one
C28_Shows(r, text) ==
  analyzeCodeBody(r, [k |-> "json", data |-> Envelope(JsStr(text))])

(* C28: for every 200 response whose text holds the marker 'REFACTORED:',  *)
(* the smells panel shows the trimmed text before the first marker without *)
(* its first 'SMELLS:' and the refactored panel shows the trimmed text     *)
(* between the first and the second marker (or the end); without a marker  *)
(* the refactored panel shows 'No refactoring provided'; in both cases the *)
(* results panel is visible.                                               *)
C28_SplitAtMarker ==
  [][\A r \in inflight : \A text \in LegacyTexts :
       C28_Shows(r, text) =>
         /\ ~el'.resultsHidden
         /\ IF C28_First(text, REFACTORED) # 0
            THEN /\ el'.smellsText = Trim(C28_Before(text))
                 /\ el'.refactoredText = Trim(C28_Between(text))
            ELSE el'.refactoredText = MsgNoRefactoring]_vars

(* C28 (amended): as above, except that the refactored panel shows the     *)
(* trimmed text after the marker only when at least one character stands   *)
(* between the first marker and the second one (or the end); when nothing  *)
(* stands there, or there is no marker, it shows 'No refactoring           *)
(* provided'.                                                              *)
C28_SplitAtMarkerNonEmpty ==
  [][\A r \in inflight : \A text \in LegacyTexts :
       C28_Shows(r, text) =>
         /\ ~el'.resultsHidden
         /\ el'.loadingHidden
         /\ IF C28_First(text, REFACTORED) # 0
            THEN /\ el'.smellsText = Trim(C28_Before(text))
                 /\ el'.refactoredText =
                      (IF C28_Between(text) # <<>> THEN Trim(C28_Between(text))
                       ELSE MsgNoRefactoring)
            ELSE el'.refactoredText = MsgNoRefactoring]_vars

C28_Witness ==
  /\ last = Ran("analyzeCode", "shown")
  /\ nextId = 2
  /\ inflight = {}
  /\ ~el.resultsHidden
  /\ el.smellsText = <<Word("x")>>
  /\ el.refactoredText = <<Word("x")>>


\* the panels of the legacy page that are visible
C29_Visible ==
  {p \in {"loading", "error", "results"} :
     \/ p = "loading" /\ ~el.loadingHidden
     \/ p = "error" /\ ~el.errorHidden
     \/ p = "results" /\ ~el.resultsHidden}

(* C29: on the legacy page, from the first analyze click on, at most one   *)
(* of the loading, error and results panels is visible; the loading panel  *)
(* is visible exactly while a request is in flight; and once the request   *)
(* has completed exactly one panel is visible, the results panel after a   *)
(* success and the error panel after a failure.                            *)
C29_OnePanelAtATime ==
  last.op = "analyzeCode" =>
    /\ Cardinality(C29_Visible) <= 1
    /\ ("loading" \in C29_Visible <=> Pending("legacy") # {})
    /\ (last.out = "sent" <=> Pending("legacy") # {})
    /\ (last.out = "shown" => C29_Visible = {"results"})
    /\ (last.out \in {"error", "missing"} => C29_Visible = {"error"})

C29_Witness ==
  /\ last = Ran("analyzeCode", "sent")
  /\ nextId = 3
  /\ Pending("legacy") # {}
  /\ C29_Visible = {"loading"}
  /\ el.refactoredText # <<>>


\* what the request of a call shares with the request of every other call
C30_Transport(r) ==
  [url |-> r.request.url, method |-> r.request.method,
   headers |-> r.request.headers, timeout |-> r.request.timeout]

(* C30: every analysis request in flight sets response_mime_type to        *)
(* application/json and no follow-up request sets it; all requests go to   *)
(* the same URL with the same method, headers (the credential included)    *)
(* and timeout; and a failed fetch ends a call of either kind with the     *)
(* same message for the same outcome.                                      *)
C30_JsonForAnalysisOnly ==
  [][/\ \A r \in inflight' :
          /\ r.kind = "analyze" => r.request.body.response_mime_type = "application/json"
          /\ r.kind = "followup" => r.request.body.response_mime_type = "unset"
          /\ C30_Transport(r) =
               [url |-> [base |-> GEMINI_ENDPOINT, query |-> <<>>],
                method |-> "POST",
                headers |-> [contentType |-> "application/json", xGoogApiKey |-> apiKey'],
                timeout |-> REQUEST_TIMEOUT_MS]
     /\ \A r \in inflight : \A f \in FetchOutcomes :
          (onAnalyzeFetched(r, f) \/ onChatSendFetched(r, f)) =>
            IF C13_Expected(f) = ""
            THEN r.id \in Ids(inflight') /\ el' = el
            ELSE /\ r.id \notin Ids(inflight')
                 /\ el'.errorMessage = C13_Expected(f)
                 /\ ~el'.errorHidden]_vars

C30_Witness ==
  /\ last.out = "sent"
  /\ \E r \in Pending("followup") :
       /\ r.stage = "fetch"
       /\ r.request.body.response_mime_type = "unset"
       /\ r.request.headers.xGoogApiKey = apiKey
       /\ r.request.timeout = REQUEST_TIMEOUT_MS
  /\ analysisResult # NULL


\* the body of a 200 response whose text is the given one
C31_Body(text) == [k |-> "json", data |-> Envelope(JsStr(text))]

(* C31: for a JSON object T, an analysis whose response is T between one   *)
(* opening fence (bare or tagged json) and one closing fence ends exactly   *)
(* as the analysis whose response is T itself ends: same stored result,     *)
(* same page.  Only one fence is stripped at each end: T between two        *)
(* opening and two closing fences ends with the could-not-parse error and   *)
(* with analysisResult as it was.                                           *)
C31_FenceTransparent ==
  [][\A r \in inflight : \A d \in {ResultFenced, ResultFencedPartial} :
       /\ \A text \in FenceWrappings(d) :
            onAnalyzeBody(r, C31_Body(text)) => onAnalyzeBody(r, C31_Body(<<Doc(d)>>))
       /\ \A text \in DoubleFenced(d) :
            onAnalyzeBody(r, C31_Body(text)) =>
              /\ last' = Ran("onAnalyze", "error")
              /\ el'.errorMessage = MsgParse
              /\ analysisResult' = analysisResult]_vars

C31_Witness ==
  /\ last = Ran("onAnalyze", "rendered")
  /\ inflight = {}
  /\ analysisResult # NULL
  /\ Get(analysisResult, "summary") = JsStr(<<Word("fenced")>>)
  /\ Get(analysisResult, "smells") = JsArr(<<>>)
  /\ Get(analysisResult, "refactored_code") = JsStr(currentCode)
  /\ el.summaryText = <<Word("fenced")>>
  /\ ~el.resultsHidden


(* C32: no response to a request started before a reset changes the        *)
(* session after it.  The history leaves the empty state only by a step    *)
(* that issues a follow-up and appends its question (never by a step that  *)
(* settles a request: the request of the current session has its question  *)
(* in the history), and analysisResult leaves none only by a step that     *)
(* settles an analysis during which Clear was disabled.                    *)
C32_NoWriteAfterReset ==
  [][/\ (chatHistory = <<>> /\ chatHistory' # <<>>) =>
          (ChatSendRuns /\ last'.out = "sent")
     /\ (analysisResult = NULL /\ analysisResult' # NULL) =>
          (/\ Ids(Pending("analyze")) \ Ids(inflight') # {}
           /\ el.clearBtnDisabled)]_vars


(* C33: every assistant entry of chatHistory comes right after a user      *)
(* entry: the history does not start with an assistant entry and holds no  *)
(* two assistant entries in a row.                                         *)
C33_AssistantFollowsUser ==
  \A i \in DOMAIN chatHistory :
    chatHistory[i].role = "gemini" =>
      /\ i > 1
      /\ chatHistory[i - 1].role = "user"


(* C34: the follow-up chat panel is visible exactly when an analysis       *)
(* result is stored.                                                       *)
C34_ChatPanelIffResult ==
  ~el.chatPanelHidden <=> analysisResult # NULL


\* the step belongs to a run of onAnalyze: it starts one, or it moves or
\* ends an analysis in flight
C35_AnalyzeStep ==
  \/ AnalyzeRuns
  \/ Pending("analyze")' # Pending("analyze")

\* the step belongs to a run of onChatSend
C35_FollowUpStep ==
  \/ ChatSendRuns
  \/ Pending("followup")' # Pending("followup")

(* C35: no step of an analysis, whether it starts it, fails or succeeds,   *)
(* changes chatHistory, currentCode, currentLanguage or the credential; no *)
(* step of a follow-up changes analysisResult, currentCode,                *)
(* currentLanguage or the credential.                                      *)
C35_RequestFrames ==
  [][/\ C35_AnalyzeStep =>
          UNCHANGED <<chatHistory, currentCode, currentLanguage, apiKey>>
     /\ C35_FollowUpStep =>
          UNCHANGED <<analysisResult, currentCode, currentLanguage, apiKey>>]_vars

C35_Witness ==
  /\ last = Ran("onAnalyze", "rendered")
  /\ nextId = 4
  /\ inflight = {}
  /\ Len(chatHistory) = 2
  /\ chatHistory[2].role = "gemini"
  /\ analysisResult # NULL


(* C36: on the legacy page, a click on analyze while the trimmed key or    *)
(* the trimmed code is empty shows 'Please enter both API key and code'    *)
(* as the only panel, issues no request and leaves the button enabled.     *)
C36_LegacyMissingInput ==
  [][(analyzeCodeClick /\ (Trim(el.input) = <<>> \/ Trim(el.apikey) = <<>>)) =>
       /\ el'.errorText = "Please enter both API key and code"
       /\ ~el'.errorHidden
       /\ el'.loadingHidden
       /\ el'.resultsHidden
       /\ inflight' = inflight
       /\ nextId' = nextId
       /\ ~el'.buttonDisabled]_vars

C36_Witness ==
  /\ last = Ran("analyzeCode", "missing")
  /\ el.input = <<WS>>
  /\ Trim(el.apikey) # <<>>
  /\ el.errorText = "Please enter both API key and code"
  /\ ~el.errorHidden
  /\ ~el.buttonDisabled
  /\ inflight = {}
  /\ nextId = 2


(* C37: on the legacy page the analyze button is disabled exactly while a  *)
(* request is in flight: it is disabled from the click that issues the     *)
(* request, and enabled again once the request has ended, whatever the     *)
(* outcome; so at most one request is outstanding.                         *)
C37_LegacyButtonGuardsRequest ==
  /\ el.buttonDisabled <=> Pending("legacy") # {}
  /\ Cardinality(inflight) <= 1

C37_Witness ==
  /\ last = Ran("analyzeCode", "error")
  /\ el.errorText = CaughtMessage(MsgReadUndefined)
  /\ ~el.errorHidden
  /\ ~el.buttonDisabled
  /\ inflight = {}
  /\ nextId = 3

====
